---- MODULE Spec2Model ----
(***************************************************************************)
(* Model of graph_search_algorithms.Graph: an insertion-ordered            *)
(* defaultdict(list) adjacency mapping with a directed flag, its two       *)
(* mutators and its traversal / path / component queries.                  *)
(***************************************************************************)
EXTENDS Integers, Sequences, FiniteSets, TLC

\* ---------------------------------------------------------------- bounds
NumIds == 4
MaxEdges == 4

\* Vertex identifiers are opaque strings: the code only compares and hashes
\* them, so behaviours are explored up to renaming. A call's argument is a
\* vertex already named (a key, or an earlier argument of the same call) or
\* the first identifier not yet named.
IdName == <<"A", "B", "C", "D", "E", "F", "G", "H">>
Ids == {IdName[i] : i \in 1..NumIds}
Candidates(named) ==
    named \cup {IdName[i] : i \in {j \in 1..NumIds :
                    /\ IdName[j] \notin named
                    /\ \A k \in 1..(j - 1) : IdName[k] \in named}}

\* ----------------------------------------------------------- state
VARIABLES adjacency_list, directed, last
vars == <<adjacency_list, directed, last>>

\* ------------------------------------------- the defaultdict(list) mapping
\* An insertion-ordered dict is a sequence of <<key, neighbor list>> pairs.
Range(s) == {s[i] : i \in 1..Len(s)}

Keys(d) == [i \in 1..Len(d) |-> d[i][1]]

Has(d, k) == \E i \in 1..Len(d) : d[i][1] = k

Value(d, k) == d[CHOOSE i \in 1..Len(d) : d[i][1] = k][2]

\* d.get(k, default): never inserts
Get(d, k, default) == IF Has(d, k) THEN Value(d, k) ELSE default

\* d[k] = v: replaces in place, or inserts k as the last key
SetItem(d, k, v) ==
    IF Has(d, k)
    THEN [i \in 1..Len(d) |-> IF d[i][1] = k THEN <<k, v>> ELSE d[i]]
    ELSE Append(d, <<k, v>>)

\* d[k] on a defaultdict(list): a missing key is inserted with []
GetItem(d, k) ==
    IF Has(d, k)
    THEN [val |-> Value(d, k), d |-> d]
    ELSE [val |-> <<>>, d |-> Append(d, <<k, <<>>>>)]

\* d[k].append(x)
AppendItem(d, k, x) ==
    LET gi == GetItem(d, k) IN SetItem(gi.d, k, Append(gi.val, x))

\* Optional[List[str]]
None == [none |-> TRUE, val |-> <<>>]
Some(p) == [none |-> FALSE, val |-> p]

\* ------------------------------------------------------------- mutation
\* add_edge without the two "ensure the vertex exists" statements
add_edge_no_ensure(d, dir, start, end) ==
    LET d3 == AppendItem(d, start, end)
    IN  IF ~dir THEN AppendItem(d3, end, start) ELSE d3

\* add_edge that skips an edge already present
add_edge_dedup(d, dir, start, end) ==
    LET d1 == IF ~Has(d, start) THEN SetItem(d, start, <<>>) ELSE d
        d2 == IF ~Has(d1, end) THEN SetItem(d1, end, <<>>) ELSE d1
    IN  IF end \in Range(Value(d2, start)) THEN d2
        ELSE LET d3 == AppendItem(d2, start, end)
             IN  IF ~dir THEN AppendItem(d3, end, start) ELSE d3

\* add_edge that puts the new entry at the front of the list (insert(0, ...))
add_edge_prepend(d, dir, start, end) ==
    LET d1 == IF ~Has(d, start) THEN SetItem(d, start, <<>>) ELSE d
        d2 == IF ~Has(d1, end) THEN SetItem(d1, end, <<>>) ELSE d1
        d3 == SetItem(d2, start, <<end>> \o Value(d2, start))
    IN  IF ~dir THEN SetItem(d3, end, <<start>> \o Value(d3, end)) ELSE d3

add_edge(d, dir, start, end) ==
    LET d1 == IF ~Has(d, start) THEN SetItem(d, start, <<>>) ELSE d
        d2 == IF ~Has(d1, end) THEN SetItem(d1, end, <<>>) ELSE d1
        d3 == AppendItem(d2, start, end)
    IN  IF ~dir THEN AppendItem(d3, end, start) ELSE d3

\* add_vertex without the membership test: an existing list is reset
add_vertex_reset(d, vertex) == SetItem(d, vertex, <<>>)

add_vertex(d, vertex) ==
    IF ~Has(d, vertex) THEN SetItem(d, vertex, <<>>) ELSE d

\* number of add_edge calls that produced d
RECURSIVE SumLen(_, _)
SumLen(d, i) == IF i > Len(d) THEN 0 ELSE Len(d[i][2]) + SumLen(d, i + 1)

EdgeCount(d, dir) == IF dir THEN SumLen(d, 1) ELSE SumLen(d, 1) \div 2

\* --------------------------------------------------------------- queries
get_vertices(d) == [ret |-> Keys(d), d |-> d]

\* get_neighbors by subscript instead of .get
get_neighbors_subscript(d, vertex) ==
    LET gi == GetItem(d, vertex) IN [ret |-> gi.val, d |-> gi.d]

get_neighbors(d, vertex) == [ret |-> Get(d, vertex, <<>>), d |-> d]


\* ------------------------------------------------------------ traversals
Reverse(s) == [i \in 1..Len(s) |-> s[Len(s) + 1 - i]]

\* bfs_while that marks a neighbor visited when it is enqueued
RECURSIVE bfs_while_mark_on_enqueue(_, _, _, _)
bfs_while_mark_on_enqueue(d, visited, queue, result) ==
    IF queue = <<>> THEN [ret |-> result, d |-> d]
    ELSE LET current == Head(queue)
             popped == Tail(queue)
         IN  IF current \notin visited
             THEN LET visited1 == visited \cup {current}
                      gi == GetItem(d, current)
                      unvisited == SelectSeq(gi.val, LAMBDA n : n \notin visited1)
                  IN  bfs_while_mark_on_enqueue(gi.d, visited1 \cup Range(unvisited),
                                                popped \o unvisited,
                                                Append(result, current))
             ELSE bfs_while_mark_on_enqueue(d, visited, popped, result)

\* bfs_while that takes the newest entry (pop() for popleft())
RECURSIVE bfs_while_pop(_, _, _, _)
bfs_while_pop(d, visited, queue, result) ==
    IF queue = <<>> THEN [ret |-> result, d |-> d]
    ELSE LET current == queue[Len(queue)]
             popped == SubSeq(queue, 1, Len(queue) - 1)
         IN  IF current \notin visited
             THEN LET visited1 == visited \cup {current}
                      gi == GetItem(d, current)
                      unvisited == SelectSeq(gi.val, LAMBDA n : n \notin visited1)
                  IN  bfs_while_pop(gi.d, visited1, popped \o unvisited,
                                    Append(result, current))
             ELSE bfs_while_pop(d, visited, popped, result)

RECURSIVE bfs_while(_, _, _, _)
bfs_while(d, visited, queue, result) ==
    IF queue = <<>> THEN [ret |-> result, d |-> d]
    ELSE LET current == Head(queue)
             popped == Tail(queue)
         IN  IF current \notin visited
             THEN LET visited1 == visited \cup {current}
                      gi == GetItem(d, current)
                      unvisited == SelectSeq(gi.val, LAMBDA n : n \notin visited1)
                  IN  bfs_while(gi.d, visited1, popped \o unvisited,
                                Append(result, current))
             ELSE bfs_while(d, visited, popped, result)

\* breadth_first_search without the test for an unknown start
breadth_first_search_no_check(d, start) == bfs_while(d, {}, <<start>>, <<>>)

breadth_first_search(d, start) ==
    IF ~Has(d, start) THEN [ret |-> <<>>, d |-> d]
    ELSE bfs_while(d, {}, <<start>>, <<>>)

\* dfs_while that pushes the neighbors in adjacency order (no reversed())
RECURSIVE dfs_while_no_reverse(_, _, _, _)
dfs_while_no_reverse(d, visited, stack, result) ==
    IF stack = <<>> THEN [ret |-> result, d |-> d]
    ELSE LET current == stack[Len(stack)]
             popped == SubSeq(stack, 1, Len(stack) - 1)
         IN  IF current \notin visited
             THEN LET visited1 == visited \cup {current}
                      gi == GetItem(d, current)
                      unvisited == SelectSeq(gi.val, LAMBDA n : n \notin visited1)
                  IN  dfs_while_no_reverse(gi.d, visited1, popped \o unvisited,
                                           Append(result, current))
             ELSE dfs_while_no_reverse(d, visited, popped, result)

\* the stack's top is the end of the sequence
RECURSIVE dfs_while(_, _, _, _)
dfs_while(d, visited, stack, result) ==
    IF stack = <<>> THEN [ret |-> result, d |-> d]
    ELSE LET current == stack[Len(stack)]
             popped == SubSeq(stack, 1, Len(stack) - 1)
         IN  IF current \notin visited
             THEN LET visited1 == visited \cup {current}
                      gi == GetItem(d, current)
                      unvisited == SelectSeq(Reverse(gi.val),
                                             LAMBDA n : n \notin visited1)
                  IN  dfs_while(gi.d, visited1, popped \o unvisited,
                                Append(result, current))
             ELSE dfs_while(d, visited, popped, result)

depth_first_search(d, start) ==
    IF ~Has(d, start) THEN [ret |-> <<>>, d |-> d]
    ELSE dfs_while(d, {}, <<start>>, <<>>)

\* dfs_recursive shares one visited set over the whole call tree; the set is
\* returned next to the result so that the caller's for loop sees it grow.
RECURSIVE dfs_recursive_call(_, _, _)
RECURSIVE dfs_recursive_for(_, _, _, _, _)
dfs_recursive_call(d, start, visited) ==
    IF ~Has(d, start) \/ start \in visited
    THEN [ret |-> <<>>, visited |-> visited, d |-> d]
    ELSE LET gi == GetItem(d, start)
         IN  dfs_recursive_for(gi.d, gi.val, 1, visited \cup {start}, <<start>>)

dfs_recursive_for(d, neighbors, i, visited, result) ==
    IF i > Len(neighbors) THEN [ret |-> result, visited |-> visited, d |-> d]
    ELSE IF neighbors[i] \notin visited
         THEN LET r == dfs_recursive_call(d, neighbors[i], visited)
              IN  dfs_recursive_for(r.d, neighbors, i + 1, r.visited,
                                    result \o r.ret)
         ELSE dfs_recursive_for(d, neighbors, i + 1, visited, result)

\* called with visited = None
dfs_recursive(d, start) ==
    LET r == dfs_recursive_call(d, start, {}) IN [ret |-> r.ret, d |-> r.d]

\* ---------------------------------------------------------- path finding
\* path_for that returns the path so far, without the target
RECURSIVE path_for_no_target(_, _, _, _, _, _)
path_for_no_target(neighbors, i, target, visited, path, work) ==
    IF i > Len(neighbors) THEN [found |-> FALSE, work |-> work]
    ELSE IF neighbors[i] = target
         THEN [found |-> TRUE, path |-> path]
         ELSE IF neighbors[i] \notin visited
              THEN path_for_no_target(neighbors, i + 1, target, visited, path,
                            Append(work, <<neighbors[i], Append(path, neighbors[i])>>))
              ELSE path_for_no_target(neighbors, i + 1, target, visited, path, work)

\* The for loop over the neighbors of current: returns the path as soon as
\* the target is met, otherwise the work list with the unvisited neighbors
\* added at its end.
RECURSIVE path_for(_, _, _, _, _, _)
path_for(neighbors, i, target, visited, path, work) ==
    IF i > Len(neighbors) THEN [found |-> FALSE, work |-> work]
    ELSE IF neighbors[i] = target
         THEN [found |-> TRUE, path |-> Append(path, neighbors[i])]
         ELSE IF neighbors[i] \notin visited
              THEN path_for(neighbors, i + 1, target, visited, path,
                            Append(work, <<neighbors[i], Append(path, neighbors[i])>>))
              ELSE path_for(neighbors, i + 1, target, visited, path, work)

\* find_path_bfs_while that pops the newest entry (pop() for popleft())
RECURSIVE find_path_bfs_while_pop(_, _, _, _)
find_path_bfs_while_pop(d, target, visited, queue) ==
    IF queue = <<>> THEN [ret |-> None, d |-> d]
    ELSE LET current == queue[Len(queue)][1]
             path == queue[Len(queue)][2]
             popped == SubSeq(queue, 1, Len(queue) - 1)
         IN  IF current \in visited
             THEN find_path_bfs_while_pop(d, target, visited, popped)
             ELSE LET visited1 == visited \cup {current}
                      gi == GetItem(d, current)
                      f == path_for(gi.val, 1, target, visited1, path, popped)
                  IN  IF f.found THEN [ret |-> Some(f.path), d |-> gi.d]
                      ELSE find_path_bfs_while_pop(gi.d, target, visited1, f.work)

RECURSIVE find_path_bfs_while(_, _, _, _)
find_path_bfs_while(d, target, visited, queue) ==
    IF queue = <<>> THEN [ret |-> None, d |-> d]
    ELSE LET current == Head(queue)[1]
             path == Head(queue)[2]
             popped == Tail(queue)
         IN  IF current \in visited
             THEN find_path_bfs_while(d, target, visited, popped)
             ELSE LET visited1 == visited \cup {current}
                      gi == GetItem(d, current)
                      f == path_for(gi.val, 1, target, visited1, path, popped)
                  IN  IF f.found THEN [ret |-> Some(f.path), d |-> gi.d]
                      ELSE find_path_bfs_while(gi.d, target, visited1, f.work)

\* find_path_bfs without the start == target shortcut
find_path_bfs_no_shortcut(d, start, target) ==
    IF ~Has(d, start) \/ ~Has(d, target) THEN [ret |-> None, d |-> d]
    ELSE find_path_bfs_while(d, target, {}, << <<start, <<start>>>> >>)

find_path_bfs(d, start, target) ==
    IF ~Has(d, start) \/ ~Has(d, target) THEN [ret |-> None, d |-> d]
    ELSE IF start = target THEN [ret |-> Some(<<start>>), d |-> d]
    ELSE find_path_bfs_while(d, target, {}, << <<start, <<start>>>> >>)

RECURSIVE find_path_dfs_while(_, _, _, _)
find_path_dfs_while(d, target, visited, stack) ==
    IF stack = <<>> THEN [ret |-> None, d |-> d]
    ELSE LET current == stack[Len(stack)][1]
             path == stack[Len(stack)][2]
             popped == SubSeq(stack, 1, Len(stack) - 1)
         IN  IF current \in visited
             THEN find_path_dfs_while(d, target, visited, popped)
             ELSE LET visited1 == visited \cup {current}
                      gi == GetItem(d, current)
                      f == path_for(gi.val, 1, target, visited1, path, popped)
                  IN  IF f.found THEN [ret |-> Some(f.path), d |-> gi.d]
                      ELSE find_path_dfs_while(gi.d, target, visited1, f.work)

\* find_path_dfs that tests start == target before the membership test
find_path_dfs_same_first(d, start, target) ==
    IF start = target THEN [ret |-> Some(<<start>>), d |-> d]
    ELSE IF ~Has(d, start) \/ ~Has(d, target) THEN [ret |-> None, d |-> d]
    ELSE find_path_dfs_while(d, target, {}, << <<start, <<start>>>> >>)

find_path_dfs(d, start, target) ==
    IF ~Has(d, start) \/ ~Has(d, target) THEN [ret |-> None, d |-> d]
    ELSE IF start = target THEN [ret |-> Some(<<start>>), d |-> d]
    ELSE find_path_dfs_while(d, target, {}, << <<start, <<start>>>> >>)

\* ------------------------------------------------------------ components
RECURSIVE component_while(_, _, _, _)
component_while(d, visited, queue, component) ==
    IF queue = <<>> THEN [component |-> component, visited |-> visited, d |-> d]
    ELSE LET current == Head(queue)
             popped == Tail(queue)
         IN  IF current \notin visited
             THEN LET visited1 == visited \cup {current}
                      gi == GetItem(d, current)
                      unvisited == SelectSeq(gi.val, LAMBDA n : n \notin visited1)
                  IN  component_while(gi.d, visited1, popped \o unvisited,
                                      Append(component, current))
             ELSE component_while(d, visited, popped, component)

\* components_for with a visited set that is fresh for every component
RECURSIVE components_for_fresh_visited(_, _, _, _)
components_for_fresh_visited(d, i, visited, components) ==
    IF i > Len(d) THEN [ret |-> components, d |-> d]
    ELSE LET vertex == d[i][1]
             c == component_while(d, {}, <<vertex>>, <<>>)
         IN  components_for_fresh_visited(c.d, i + 1, c.visited,
                                          Append(components, c.component))

\* for vertex in self.adjacency_list: the i-th key of the mapping
RECURSIVE components_for(_, _, _, _)
components_for(d, i, visited, components) ==
    IF i > Len(d) THEN [ret |-> components, d |-> d]
    ELSE LET vertex == d[i][1]
         IN  IF vertex \notin visited
             THEN LET c == component_while(d, visited, <<vertex>>, <<>>)
                  IN  components_for(c.d, i + 1, c.visited,
                                     IF c.component # <<>>
                                     THEN Append(components, c.component)
                                     ELSE components)
             ELSE components_for(d, i + 1, visited, components)

connected_components_bfs(d) == components_for(d, 1, {}, <<>>)

\* is_connected that only asks whether the search visited anything
is_connected_any_visited(d) ==
    IF Len(d) = 0 THEN [ret |-> TRUE, d |-> d]
    ELSE LET start == d[1][1]
             r == breadth_first_search(d, start)
         IN  [ret |-> Cardinality(Range(r.ret)) >= 1, d |-> r.d]

\* is_connected that starts the search from the last key
is_connected_from_last(d) ==
    IF Len(d) = 0 THEN [ret |-> TRUE, d |-> d]
    ELSE LET start == d[Len(d)][1]
             r == breadth_first_search(d, start)
         IN  [ret |-> Cardinality(Range(r.ret)) = Len(r.d), d |-> r.d]

is_connected(d) ==
    IF Len(d) = 0 THEN [ret |-> TRUE, d |-> d]
    ELSE LET start == d[1][1]
             r == breadth_first_search(d, start)
         IN  [ret |-> Cardinality(Range(r.ret)) = Len(r.d), d |-> r.d]

\* ------------------------------------- the work loops, pass by pass
\* The same while loops, one pass of the loop body per step, with two
\* counters the code does not keep: added, the number of entries ever put
\* on the queue or stack, and marks, the vertices in the order visited.add
\* was executed for them.
StartLoop(d, entry) ==
    [d |-> d, visited |-> {}, work |-> <<entry>>, result |-> <<>>,
     added |-> 1, marks |-> <<>>, returned |-> FALSE, ret |-> None]

\* bfs_iteration without the "if current not in visited" test
bfs_iteration_no_skip(w) ==
    LET current == Head(w.work)
        popped == Tail(w.work)
        visited1 == w.visited \cup {current}
        gi == GetItem(w.d, current)
        unvisited == SelectSeq(gi.val, LAMBDA n : n \notin visited1)
    IN  [w EXCEPT !.d = gi.d, !.visited = visited1,
                  !.work = popped \o unvisited,
                  !.result = Append(@, current),
                  !.added = @ + Len(unvisited),
                  !.marks = Append(@, current)]

\* breadth_first_search and connected_components_bfs: one pass of while queue
bfs_iteration(w) ==
    LET current == Head(w.work)
        popped == Tail(w.work)
    IN  IF current \notin w.visited
        THEN LET visited1 == w.visited \cup {current}
                 gi == GetItem(w.d, current)
                 unvisited == SelectSeq(gi.val, LAMBDA n : n \notin visited1)
             IN  [w EXCEPT !.d = gi.d, !.visited = visited1,
                           !.work = popped \o unvisited,
                           !.result = Append(@, current),
                           !.added = @ + Len(unvisited),
                           !.marks = Append(@, current)]
        ELSE [w EXCEPT !.work = popped]

\* depth_first_search: one pass of while stack
dfs_iteration(w) ==
    LET current == w.work[Len(w.work)]
        popped == SubSeq(w.work, 1, Len(w.work) - 1)
    IN  IF current \notin w.visited
        THEN LET visited1 == w.visited \cup {current}
                 gi == GetItem(w.d, current)
                 unvisited == SelectSeq(Reverse(gi.val),
                                        LAMBDA n : n \notin visited1)
             IN  [w EXCEPT !.d = gi.d, !.visited = visited1,
                           !.work = popped \o unvisited,
                           !.result = Append(@, current),
                           !.added = @ + Len(unvisited),
                           !.marks = Append(@, current)]
        ELSE [w EXCEPT !.work = popped]

\* number of append calls of the for loop over neighbors: the unvisited
\* entries before the first occurrence of the target, all of them if none
AppendsOfFor(neighbors, target, visited) ==
    LET hits == {i \in 1..Len(neighbors) : neighbors[i] = target}
        stop == IF hits = {} THEN Len(neighbors) + 1
                ELSE CHOOSE i \in hits : \A j \in hits : i <= j
    IN  Cardinality({i \in 1..(stop - 1) : neighbors[i] \notin visited})

\* find_path_bfs / find_path_dfs: the part of a pass after the pop
find_path_pass(w, target, current, path, popped) ==
    IF current \in w.visited THEN [w EXCEPT !.work = popped]
    ELSE LET visited1 == w.visited \cup {current}
             gi == GetItem(w.d, current)
             f == path_for(gi.val, 1, target, visited1, path, popped)
             n == AppendsOfFor(gi.val, target, visited1)
         IN  IF f.found
             THEN [w EXCEPT !.d = gi.d, !.visited = visited1, !.work = popped,
                            !.added = @ + n, !.marks = Append(@, current),
                            !.returned = TRUE, !.ret = Some(f.path)]
             ELSE [w EXCEPT !.d = gi.d, !.visited = visited1, !.work = f.work,
                            !.added = @ + n, !.marks = Append(@, current)]

find_path_bfs_iteration(w, target) ==
    find_path_pass(w, target, Head(w.work)[1], Head(w.work)[2], Tail(w.work))

find_path_dfs_iteration(w, target) ==
    find_path_pass(w, target, w.work[Len(w.work)][1], w.work[Len(w.work)][2],
                   SubSeq(w.work, 1, Len(w.work) - 1))

Iteration(kind, w, target) ==
    CASE kind = "breadth_first_search" -> bfs_iteration(w)
      [] kind = "depth_first_search" -> dfs_iteration(w)
      [] kind = "find_path_bfs" -> find_path_bfs_iteration(w, target)
      [] kind = "find_path_dfs" -> find_path_dfs_iteration(w, target)

\* the while loop, cut after at most `passes` passes
RECURSIVE WhileLoop(_, _, _, _)
WhileLoop(kind, w, target, passes) ==
    IF w.work = <<>> \/ w.returned \/ passes = 0 THEN w
    ELSE WhileLoop(kind, Iteration(kind, w, target), target, passes - 1)

Finished(w) == w.work = <<>> \/ w.returned

\* connected_components_bfs: the for loop over the keys, each unvisited key
\* seeding one while loop; result collects the components end to end
RECURSIVE ComponentsLoop(_, _, _)
ComponentsLoop(w, i, passes) ==
    IF i > Len(w.d) THEN w
    ELSE LET vertex == w.d[i][1]
         IN  IF vertex \notin w.visited
             THEN LET seeded == [w EXCEPT !.work = <<vertex>>, !.added = @ + 1]
                      after == WhileLoop("breadth_first_search", seeded, "", passes)
                  IN  IF after.work # <<>> THEN after
                      ELSE ComponentsLoop(after, i + 1, passes)
             ELSE ComponentsLoop(w, i + 1, passes)

\* --------------------------------------------------------------- actions
\* last is the last mutating call (a trace variable); the queries return
\* their value to the caller and leave in the state only what they did to
\* the mapping.
Known == Range(Keys(adjacency_list))

Init ==
    /\ adjacency_list = <<>>
    /\ directed \in BOOLEAN
    /\ last = [op |-> "__init__", args |-> <<>>]

AddEdge ==
    \E start \in Candidates(Known) :
        \E end \in Candidates(Known \cup {start}) :
            /\ EdgeCount(adjacency_list, directed) < MaxEdges
            /\ adjacency_list' = add_edge(adjacency_list, directed, start, end)
            /\ last' = [op |-> "add_edge", args |-> <<start, end>>]
            /\ UNCHANGED directed

AddVertex ==
    \E vertex \in Candidates(Known) :
        /\ adjacency_list' = add_vertex(adjacency_list, vertex)
        /\ last' = [op |-> "add_vertex", args |-> <<vertex>>]
        /\ UNCHANGED directed

GetVertices ==
    /\ adjacency_list' = get_vertices(adjacency_list).d
    /\ UNCHANGED <<directed, last>>

GetNeighbors ==
    \E vertex \in Candidates(Known) :
        /\ adjacency_list' = get_neighbors(adjacency_list, vertex).d
        /\ UNCHANGED <<directed, last>>

BreadthFirstSearch ==
    \E start \in Candidates(Known) :
        /\ adjacency_list' = breadth_first_search(adjacency_list, start).d
        /\ UNCHANGED <<directed, last>>

DepthFirstSearch ==
    \E start \in Candidates(Known) :
        /\ adjacency_list' = depth_first_search(adjacency_list, start).d
        /\ UNCHANGED <<directed, last>>

DfsRecursive ==
    \E start \in Candidates(Known) :
        /\ adjacency_list' = dfs_recursive(adjacency_list, start).d
        /\ UNCHANGED <<directed, last>>

FindPathBfs ==
    \E start \in Candidates(Known) :
        \E target \in Candidates(Known \cup {start}) :
            /\ adjacency_list' = find_path_bfs(adjacency_list, start, target).d
            /\ UNCHANGED <<directed, last>>

FindPathDfs ==
    \E start \in Candidates(Known) :
        \E target \in Candidates(Known \cup {start}) :
            /\ adjacency_list' = find_path_dfs(adjacency_list, start, target).d
            /\ UNCHANGED <<directed, last>>

ConnectedComponentsBfs ==
    /\ adjacency_list' = connected_components_bfs(adjacency_list).d
    /\ UNCHANGED <<directed, last>>

IsConnected ==
    /\ adjacency_list' = is_connected(adjacency_list).d
    /\ UNCHANGED <<directed, last>>

Next ==
    \/ AddEdge
    \/ AddVertex
    \/ GetVertices
    \/ GetNeighbors
    \/ BreadthFirstSearch
    \/ DepthFirstSearch
    \/ DfsRecursive
    \/ FindPathBfs
    \/ FindPathDfs
    \/ ConnectedComponentsBfs
    \/ IsConnected

Spec == Init /\ [][Next]_vars

\* ------------------------------------------------- reference definitions
\* Graph-theoretic notions the claims are stated in, defined on the mapping
\* itself and not through any of the traversals above.
Nbrs(d, x) == Range(Get(d, x, <<>>))

RECURSIVE Closure(_, _)
Closure(d, S) ==
    LET S2 == S \cup UNION {Nbrs(d, x) : x \in S}
    IN  IF S2 = S THEN S ELSE Closure(d, S2)

\* vertices forward-reachable from v (v included)
Reach(d, v) == Closure(d, {v})

\* minimum number of edges of a path from the frontier to t, -1 if none
RECURSIVE Levels(_, _, _, _, _)
Levels(d, seen, frontier, t, k) ==
    IF t \in frontier THEN k
    ELSE IF frontier = {} THEN 0 - 1
    ELSE Levels(d, seen \cup frontier,
                (UNION {Nbrs(d, x) : x \in frontier}) \ (seen \cup frontier),
                t, k + 1)

Dist(d, s, t) == Levels(d, {}, {s}, t, 0)

Count(s, x) == Cardinality({i \in 1..Len(s) : s[i] = x})

NoRepeat(s) == \A i, j \in 1..Len(s) : i # j => s[i] # s[j]

IsPath(d, p, s, t) ==
    /\ Len(p) >= 1
    /\ p[1] = s
    /\ p[Len(p)] = t
    /\ \A i \in 1..(Len(p) - 1) : p[i + 1] \in Nbrs(d, p[i])

\* the arguments a call can be given in the current state
Args1 == Candidates(Known)
Args2 ==
    UNION {{<<a, b>> : b \in Candidates(Known \cup {a})} : a \in Candidates(Known)}

\* ------------------------------------------------------------------ C1
\* C1: for known start # target with target forward-reachable from start,
\* find_path_bfs returns a path that begins with start, ends with target,
\* follows neighbor-list entries, and has the minimum number of edges.
C1_BfsPathShortest ==
    \A s \in Known, t \in Known :
        (s # t /\ t \in Reach(adjacency_list, s)) =>
            LET r == find_path_bfs(adjacency_list, s, t).ret
            IN  /\ ~r.none
                /\ IsPath(adjacency_list, r.val, s, t)
                /\ Len(r.val) - 1 = Dist(adjacency_list, s, t)

\* a pair at distance 2 for which a longer path exists too (find_path_dfs
\* returns it), in a graph with a duplicate edge or a self-loop
C1_Witness ==
    \E s \in Known, t \in Known :
        /\ s # t
        /\ Dist(adjacency_list, s, t) = 2
        /\ Len(find_path_bfs(adjacency_list, s, t).ret.val) = 3
        /\ Len(find_path_dfs(adjacency_list, s, t).ret.val) = 4

\* ------------------------------------------------------------------ C2
\* C2: depth_first_search(start) and dfs_recursive(start) return the same
\* sequence, element by element, for every start and every neighbor order
\* and multiplicity.
C2_DfsIterativeEqualsRecursive ==
    \A start \in Args1 :
        depth_first_search(adjacency_list, start).ret
            = dfs_recursive(adjacency_list, start).ret

\* a start with two distinct neighbors, one of them reachable a second way,
\* a duplicate entry somewhere, and a DFS order that differs from BFS order
C2_Witness ==
    \E start \in Known :
        /\ Cardinality(Nbrs(adjacency_list, start) \ {start}) >= 2
        /\ \E k \in Known, n \in Known :
               Count(Get(adjacency_list, k, <<>>), n) >= 2
        /\ Len(depth_first_search(adjacency_list, start).ret) >= 3
        /\ depth_first_search(adjacency_list, start).ret
               # breadth_first_search(adjacency_list, start).ret

\* ------------------------------------------------------------------ C3
\* C3: for every known v, breadth_first_search, depth_first_search and
\* dfs_recursive each return a repetition-free sequence whose elements are
\* exactly the vertices forward-reachable from v.
C3_TraversalsVisitReachableOnce ==
    \A v \in Known :
        LET b == breadth_first_search(adjacency_list, v).ret
            i == depth_first_search(adjacency_list, v).ret
            r == dfs_recursive(adjacency_list, v).ret
            reach == Reach(adjacency_list, v)
        IN  /\ NoRepeat(b) /\ Range(b) = reach
            /\ NoRepeat(i) /\ Range(i) = reach
            /\ NoRepeat(r) /\ Range(r) = reach
            /\ Len(b) = Len(i) /\ Len(i) = Len(r)

\* a directed graph with a cycle in which some vertex reaches three vertices
\* and another vertex is out of its reach
C3_Witness ==
    /\ directed
    /\ \E v \in Known :
        /\ Len(breadth_first_search(adjacency_list, v).ret) = 3
        /\ \E w \in Reach(adjacency_list, v) \ {v} : v \in Reach(adjacency_list, w)
        /\ Known \ Reach(adjacency_list, v) # {}

\* ------------------------------------------------------------------ C4
\* C4: connected_components_bfs returns a partition of the vertex set: no
\* empty component, every vertex in exactly one component and once in it.
C4_ComponentsPartition ==
    LET cs == connected_components_bfs(adjacency_list).ret
    IN  /\ \A i \in 1..Len(cs) : cs[i] # <<>> /\ NoRepeat(cs[i])
        /\ \A i, j \in 1..Len(cs) : i # j => Range(cs[i]) \cap Range(cs[j]) = {}
        /\ UNION {Range(cs[i]) : i \in 1..Len(cs)}
               = Range(get_vertices(adjacency_list).ret)

\* a directed graph whose later seed reaches into an earlier component: two
\* components, and the second seed's reachable set overlaps the first
C4_Witness ==
    LET cs == connected_components_bfs(adjacency_list).ret
    IN  /\ directed
        /\ Len(cs) >= 2
        /\ Len(cs[1]) >= 2
        /\ Reach(adjacency_list, cs[2][1]) \cap Range(cs[1]) # {}

\* ------------------------------------------------------------------ C5
\* C5: for known start # target with target forward-reachable from start,
\* find_path_dfs returns a path (never None) from start to target along
\* neighbor-list entries in which no vertex occurs twice.
C5_DfsPathSimple ==
    \A s \in Known, t \in Known :
        (s # t /\ t \in Reach(adjacency_list, s)) =>
            LET r == find_path_dfs(adjacency_list, s, t).ret
            IN  /\ ~r.none
                /\ IsPath(adjacency_list, r.val, s, t)
                /\ NoRepeat(r.val)

\* a reachable pair in a graph with an edge back into start, for which
\* find_path_dfs returns a path that is not a shortest one
C5_Witness ==
    \E s \in Known, t \in Known :
        /\ s # t
        /\ \E x \in Known \ {s} : s \in Nbrs(adjacency_list, x)
        /\ Len(find_path_dfs(adjacency_list, s, t).ret.val) - 1
               > Dist(adjacency_list, s, t)

\* ------------------------------------------------------------------ C6
\* C6: find_path_bfs and find_path_dfs return None and leave the mapping
\* unchanged when start is unknown, or target is unknown (start == target
\* unknown included), or both are known, distinct and target is not
\* forward-reachable from start.
C6_NoPathIsNone ==
    \A a \in Args2 :
        LET s == a[1]
            t == a[2]
            b == find_path_bfs(adjacency_list, s, t)
            f == find_path_dfs(adjacency_list, s, t)
        IN  (\/ s \notin Known
             \/ t \notin Known
             \/ (s # t /\ t \notin Reach(adjacency_list, s))) =>
                /\ b.ret = None /\ b.d = adjacency_list
                /\ f.ret = None /\ f.d = adjacency_list

\* a directed graph with a known pair joined one way only, and an identifier
\* that is not a vertex, so that all three cases occur in the state
C6_Witness ==
    /\ directed
    /\ Args1 \ Known # {}
    /\ \E s \in Known, t \in Known :
        /\ s # t
        /\ Dist(adjacency_list, t, s) = 2
        /\ t \notin Reach(adjacency_list, s)
        /\ find_path_bfs(adjacency_list, s, t).ret = None
        /\ find_path_dfs(adjacency_list, s, t).ret = None

\* ------------------------------------------------------------------ C7
\* C7: on an undirected graph with at least one vertex, is_connected is true
\* iff every pair of vertices is joined by a path, and then
\* connected_components_bfs returns one component holding every vertex.
C7_IsConnectedUndirected ==
    (~directed /\ Len(adjacency_list) >= 1) =>
        LET c == is_connected(adjacency_list).ret
            cs == connected_components_bfs(adjacency_list).ret
        IN  /\ c <=> (\A u \in Known, v \in Known : v \in Reach(adjacency_list, u))
            /\ c => (Len(cs) = 1 /\ Range(cs[1]) = Range(get_vertices(adjacency_list).ret))

\* an undirected connected graph on three or more vertices
C7_Witness ==
    /\ ~directed
    /\ Len(adjacency_list) >= 3
    /\ is_connected(adjacency_list).ret
    /\ Len(connected_components_bfs(adjacency_list).ret) = 1

\* ------------------------------------------------------------------ C8
\* C8: in every reachable state, every entry of every neighbor list is a key
\* of the adjacency mapping.
C8_NeighborsAreKeys ==
    \A i \in 1..Len(adjacency_list) :
        \A n \in Range(adjacency_list[i][2]) : Has(adjacency_list, n)

\* a directed graph just after add_edge created its end vertex, with a
\* self-loop and a repeated edge already present
C8_Witness ==
    /\ directed
    /\ last.op = "add_edge"
    /\ Value(adjacency_list, last.args[2]) = <<>>
    /\ \E k \in Known : Count(Value(adjacency_list, k), k) >= 1
    /\ \E k \in Known, n \in Known : Count(Value(adjacency_list, k), n) >= 2

\* ------------------------------------------------------------------ C9
\* What one add_edge(u, v) call does to the mapping d, giving d2, stated on
\* the keys and lists themselves.
AddEdgeEffect(d, d2, dir, u, v) ==
    LET old(k) == Get(d, k, <<>>)
    IN  /\ Keys(d2) = Keys(d)
                       \o (IF Has(d, u) THEN <<>> ELSE <<u>>)
                       \o (IF Has(d, v) \/ v = u THEN <<>> ELSE <<v>>)
        /\ \A k \in Range(Keys(d2)) \ {u, v} : Value(d2, k) = old(k)
        /\ IF u = v
           THEN Value(d2, u) = (IF dir THEN old(u) \o <<u>> ELSE old(u) \o <<u, u>>)
           ELSE /\ Value(d2, u) = Append(old(u), v)
                /\ Value(d2, v) = (IF dir THEN old(v) ELSE Append(old(v), u))

\* C9: add_edge(u, v) makes u and v keys (u first) if they were absent,
\* appends one v to the end of u's list, and, only if the graph is
\* undirected, then one u to the end of v's list; every other list is
\* unchanged and nothing is deduplicated.
C9_AddEdgeAppends ==
    [][last'.op = "add_edge" =>
          AddEdgeEffect(adjacency_list, adjacency_list', directed,
                        last'.args[1], last'.args[2])]_vars

\* the state after add_edge(u, v) was called a second time: two entries v in
\* u's list
C9_Witness ==
    /\ last.op = "add_edge"
    /\ last.args[1] # last.args[2]
    /\ Count(Value(adjacency_list, last.args[1]), last.args[2]) = 2
    /\ Len(adjacency_list) >= 3

\* ------------------------------------------------------------------ C10
\* C10: no query changes the graph: after get_vertices, get_neighbors, the
\* three traversals, the two path searches, connected_components_bfs and
\* is_connected the mapping (keys, their order, every list) is the one
\* before the call, for known and unknown arguments alike.
C10_QueriesDoNotMutate ==
    /\ get_vertices(adjacency_list).d = adjacency_list
    /\ connected_components_bfs(adjacency_list).d = adjacency_list
    /\ is_connected(adjacency_list).d = adjacency_list
    /\ \A v \in Args1 :
        /\ get_neighbors(adjacency_list, v).d = adjacency_list
        /\ breadth_first_search(adjacency_list, v).d = adjacency_list
        /\ depth_first_search(adjacency_list, v).d = adjacency_list
        /\ dfs_recursive(adjacency_list, v).d = adjacency_list
    /\ \A a \in Args2 :
        /\ find_path_bfs(adjacency_list, a[1], a[2]).d = adjacency_list
        /\ find_path_dfs(adjacency_list, a[1], a[2]).d = adjacency_list

\* a graph with edges and an identifier that is not a vertex, for which the
\* lookups answer with the empty value
C10_Witness ==
    /\ SumLen(adjacency_list, 1) >= 3
    /\ \E z \in Args1 \ Known :
        /\ get_neighbors(adjacency_list, z).ret = <<>>
        /\ breadth_first_search(adjacency_list, z).ret = <<>>
        /\ dfs_recursive(adjacency_list, z).ret = <<>>

\* ------------------------------------------------------------------ C11
\* C11: for an identifier z that is not a vertex, breadth_first_search,
\* depth_first_search, dfs_recursive and get_neighbors return the empty
\* sequence, and z is not a vertex of the mapping they leave.
C11_UnknownVertexIsEmpty ==
    \A z \in Args1 \ Known :
        LET b == breadth_first_search(adjacency_list, z)
            i == depth_first_search(adjacency_list, z)
            r == dfs_recursive(adjacency_list, z)
            n == get_neighbors(adjacency_list, z)
        IN  /\ b.ret = <<>> /\ ~Has(b.d, z)
            /\ i.ret = <<>> /\ ~Has(i.d, z)
            /\ r.ret = <<>> /\ ~Has(r.d, z)
            /\ n.ret = <<>> /\ ~Has(n.d, z)

\* a graph of three vertices with a cycle, just after an edge was added, and
\* an identifier that is still unknown
C11_Witness ==
    /\ last.op = "add_edge"
    /\ Len(adjacency_list) = 3
    /\ \E v \in Known : \E w \in Reach(adjacency_list, v) \ {v} :
           v \in Reach(adjacency_list, w)
    /\ \E z \in Args1 \ Known :
           depth_first_search(adjacency_list, z).ret = <<>>

\* ------------------------------------------------------------------ C12
\* C12: for every known v, find_path_bfs(v, v) and find_path_dfs(v, v) return
\* the one-element path [v], with or without a self-loop or neighbors.
C12_PathToSelf ==
    \A v \in Known :
        /\ find_path_bfs(adjacency_list, v, v).ret = Some(<<v>>)
        /\ find_path_dfs(adjacency_list, v, v).ret = Some(<<v>>)

\* a state with a vertex that has a self-loop, a vertex on a longer cycle
\* without a self-loop, and a vertex without neighbors
C12_Witness ==
    /\ \E v \in Known : v \in Nbrs(adjacency_list, v)
    /\ \E v \in Known :
        /\ v \notin Nbrs(adjacency_list, v)
        /\ \E w \in Nbrs(adjacency_list, v) : v \in Reach(adjacency_list, w)
    /\ \E v \in Known : Value(adjacency_list, v) = <<>>
    /\ \A v \in Known : find_path_dfs(adjacency_list, v, v).ret.val = <<v>>

\* ------------------------------------------------------------------ C13
\* C13: add_vertex(v) adds v as the last key with an empty list when v is
\* absent and changes nothing when v is present, whatever v's list holds; a
\* second add_vertex(v) changes nothing.
C13_AddVertexIdempotent ==
    [][last'.op = "add_vertex" =>
          LET v == last'.args[1]
          IN  /\ adjacency_list' = (IF Has(adjacency_list, v)
                                    THEN adjacency_list
                                    ELSE Append(adjacency_list, <<v, <<>>>>))
              /\ add_vertex(adjacency_list', v) = adjacency_list']_vars

\* the state after add_vertex(v) for a v that add_edge had created and given
\* neighbors
C13_Witness ==
    /\ last.op = "add_vertex"
    /\ Len(Value(adjacency_list, last.args[1])) >= 2
    /\ Len(adjacency_list) >= 2

\* ------------------------------------------------------------------ C14
\* C14: for every known v, breadth_first_search(v) begins with v and lists
\* the vertices in non-decreasing order of their edge-distance from v.
C14_BfsOrderByDistance ==
    \A v \in Known :
        LET b == breadth_first_search(adjacency_list, v).ret
        IN  /\ Len(b) >= 1
            /\ b[1] = v
            /\ \A i, j \in 1..Len(b) :
                   i < j => Dist(adjacency_list, v, b[i]) <= Dist(adjacency_list, v, b[j])

\* a search over distances 0, 1 and 2 in which a vertex has two entries
\* leading to it from visited vertices (it sits in the queue twice), and in
\* which depth-first order is not ordered by distance
C14_Witness ==
    \E v \in Known :
        LET b == breadth_first_search(adjacency_list, v).ret
            f == depth_first_search(adjacency_list, v).ret
        IN  /\ Len(b) = 4
            /\ \E x \in Range(b) : Dist(adjacency_list, v, x) = 2
            /\ \E x \in Range(b) \ {v} :
                   Cardinality({y \in Range(b) \ {x} : x \in Nbrs(adjacency_list, y)}) >= 2
            /\ \E i, j \in 1..Len(f) :
                   i < j /\ Dist(adjacency_list, v, f[i]) > Dist(adjacency_list, v, f[j])

\* ------------------------------------------------------------------ C15
\* C15: is_connected is true exactly when connected_components_bfs returns
\* at most one component, on directed and undirected graphs; on the empty
\* graph is_connected is true and the component list is empty.
C15_ConnectedIffOneComponent ==
    LET c == is_connected(adjacency_list).ret
        cs == connected_components_bfs(adjacency_list).ret
    IN  /\ c <=> (Len(cs) <= 1)
        /\ Len(adjacency_list) = 0 => (c /\ cs = <<>>)

\* a directed graph of three vertices that is_connected calls connected
\* although its last vertex reaches no other vertex
C15_Witness ==
    /\ directed
    /\ Len(adjacency_list) = 3
    /\ is_connected(adjacency_list).ret
    /\ Len(connected_components_bfs(adjacency_list).ret) = 1
    /\ Reach(adjacency_list, adjacency_list[3][1]) = {adjacency_list[3][1]}

\* ------------------------------------------------------------------ C17
IsPrefix(s, t) == Len(s) <= Len(t) /\ SubSeq(t, 1, Len(s)) = s

\* C17: in every step the directed flag keeps its value, the keys before
\* the step are a prefix of the keys after it, and every vertex's neighbor
\* list before the step is a prefix of its list after it.
C17_GrowsOnly ==
    [][/\ directed' = directed
       /\ IsPrefix(Keys(adjacency_list), Keys(adjacency_list'))
       /\ \A k \in Known :
              IsPrefix(Value(adjacency_list, k), Get(adjacency_list', k, <<>>))]_vars

\* the state after an add_edge that lengthened a list of three entries or
\* more and added a key after the earlier ones
C17_Witness ==
    /\ last.op = "add_edge"
    /\ Len(Value(adjacency_list, last.args[1])) >= 3
    /\ last.args[2] = adjacency_list[Len(adjacency_list)][1]
    /\ Value(adjacency_list, last.args[2]) = <<>>
    /\ Len(adjacency_list) >= 2

\* ------------------------------------------------------------------ C16
Entries == SumLen(adjacency_list, 1)

\* more passes than any of the loops may need: a pass takes one entry off
MaxPasses == Len(adjacency_list) + Entries

RECURSIVE Flatten(_, _)
Flatten(ss, i) == IF i > Len(ss) THEN <<>> ELSE ss[i] \o Flatten(ss, i + 1)

LoopBounded(w, bound) ==
    /\ Finished(w)
    /\ NoRepeat(w.marks)
    /\ w.added <= bound

\* the four single-source loops stay within 1 + Entries, come to their end
\* and return what the methods return; the component loop stays within
\* componentsBound
WorkLoopsBounded(componentsBound) ==
    /\ \A v \in Known :
        LET b == WhileLoop("breadth_first_search",
                           StartLoop(adjacency_list, v), "", MaxPasses)
            f == WhileLoop("depth_first_search",
                           StartLoop(adjacency_list, v), "", MaxPasses)
        IN  /\ LoopBounded(b, 1 + Entries)
            /\ b.result = breadth_first_search(adjacency_list, v).ret
            /\ LoopBounded(f, 1 + Entries)
            /\ f.result = depth_first_search(adjacency_list, v).ret
    /\ \A s \in Known, t \in Known :
        s # t =>
            LET b == WhileLoop("find_path_bfs",
                               StartLoop(adjacency_list, <<s, <<s>>>>), t, MaxPasses)
                f == WhileLoop("find_path_dfs",
                               StartLoop(adjacency_list, <<s, <<s>>>>), t, MaxPasses)
            IN  /\ LoopBounded(b, 1 + Entries)
                /\ b.ret = find_path_bfs(adjacency_list, s, t).ret
                /\ LoopBounded(f, 1 + Entries)
                /\ f.ret = find_path_dfs(adjacency_list, s, t).ret
    /\ LET c == ComponentsLoop([StartLoop(adjacency_list, "") EXCEPT
                                   !.work = <<>>, !.added = 0], 1, MaxPasses)
       IN  /\ LoopBounded(c, componentsBound)
           /\ c.result = Flatten(connected_components_bfs(adjacency_list).ret, 1)

\* C16 (as amended): on every graph the work loops of breadth_first_search,
\* depth_first_search, find_path_bfs, find_path_dfs and
\* connected_components_bfs come to their end, mark each vertex at most
\* once, and add at most 1 + (number of neighbor-list entries) entries; for
\* connected_components_bfs, which seeds one entry per component, the bound
\* is (number of vertices) + (number of neighbor-list entries).
C16_WorkLoopsTerminate == WorkLoopsBounded(Len(adjacency_list) + Entries)

\* C16 (as stated): the bound 1 + (number of neighbor-list entries) for all
\* five loops, connected_components_bfs included.
C16_AsStated == WorkLoopsBounded(1 + Entries)

\* a graph with a cycle in which a search puts a vertex on the queue more
\* than once and the component loop is seeded twice
C16_Witness ==
    /\ \E v \in Known :
        /\ \E w \in Reach(adjacency_list, v) \ {v} : v \in Reach(adjacency_list, w)
        /\ LET b == WhileLoop("breadth_first_search",
                              StartLoop(adjacency_list, v), "", MaxPasses)
           IN  Finished(b) /\ b.added > Len(b.result)
    /\ Len(connected_components_bfs(adjacency_list).ret) >= 2
====
